---- MODULE Spec2Model ----
(***************************************************************************)
(* Model of app.py: a Flask relay with three routes (/, /chat, /stats) and *)
(* a 404 handler, in front of a Dialogflow session client and a DynamoDB   *)
(* table "Conversations".                                                  *)
(*                                                                         *)
(* Requests are handled concurrently by independent workers.  A handler    *)
(* runs atomically between its outbound calls; one action is one such      *)
(* stretch of handler code, the outbound call that ends or starts it       *)
(* included.                                                               *)
(***************************************************************************)
EXTENDS Integers, Sequences, FiniteSets, TLC

\* Number of requests the server receives in one behaviour.
MaxReq == 2

Reqs == 1..MaxReq

\* os.getenv("DIALOGFLOW_PROJECT_ID", "rational-poet-439409-v3")
PROJECT_ID == "rational-poet-439409-v3"

\* The Werkzeug line the app is deployed on; the repository pins none.
\*   "pre21": get_json() returns None when the mimetype is not JSON
\*   "v21"  : get_json() raises 400 BadRequest in that case
\*   "v23"  : get_json() raises 415 UnsupportedMediaType in that case
Builds == {"pre21", "v21", "v23"}

----------------------------------------------------------------------------
(* Inputs *)

Messages == {"", "hello"}
SessionIds == {"abc123"}

\* A JSON object body: a function from the keys that are present to values.
Obj(keys, m, s) == [k \in keys |-> IF k = "message" THEN m ELSE s]

JsonObjects ==
    {Obj({}, "", "")}
      \cup {Obj({"message"}, m, "") : m \in Messages}
      \cup {Obj({"session_id"}, "", s) : s \in SessionIds}
      \cup {Obj({"message", "session_id"}, m, s) : m \in Messages, s \in SessionIds}

NoJson == Obj({}, "", "")

\* What a client can POST to /chat:
\*   is_json : the Content-Type is application/json (request.is_json)
\*   data    : "malformed" (does not parse as JSON), "array" (parses to a
\*             JSON value that is not an object), "object" (parses to json)
ChatRequests ==
    {[route |-> "chat", is_json |-> TRUE, data |-> d, json |-> NoJson] :
        d \in {"malformed", "array"}}
      \cup {[route |-> "chat", is_json |-> FALSE, data |-> "malformed", json |-> NoJson]}
      \cup {[route |-> "chat", is_json |-> TRUE, data |-> "object", json |-> o] :
              o \in JsonObjects}
      \cup {[route |-> "chat", is_json |-> FALSE, data |-> "object",
             json |-> Obj({"message"}, "hello", "")]}

PlainRequest(route) ==
    [route |-> route, is_json |-> FALSE, data |-> "malformed", json |-> NoJson]

NoRequest == PlainRequest("none")

\* response.query_result.fulfillment_text of a successful detect_intent
FulfillmentTexts == {"", "Hi there!"}

----------------------------------------------------------------------------
(* Responses *)

\* jsonify(body), status
Jsonify(body, status) ==
    [status |-> status, mimetype |-> "application/json", body |-> body]

\* The page Flask renders for an HTTPException no handler was registered for.
HttpExceptionPage(status) ==
    [status |-> status, mimetype |-> "text/html", body |-> [html |-> "error page"]]

\* render_template('index.html')
IndexPage ==
    [status |-> 200, mimetype |-> "text/html", body |-> [html |-> "index.html"]]

NoResponse == [status |-> 0, mimetype |-> "", body |-> [html |-> ""]]

----------------------------------------------------------------------------
(* Pure parts of the handlers *)

\* Variant: an identifier that is not unique.
Uuid4Fixed(n) == "fixed"

\* str(uuid.uuid4()): the n-th identifier drawn, distinct for distinct n
Uuid4(n) == ToString(n)

\* request.json (= request.get_json()):
\*   [raises |-> status of the HTTPException raised, 0 if none,
\*    isNone |-> the value is None, isDict |-> the value is a dict]
GetJson(b, rq) ==
    IF ~rq.is_json
      THEN [raises |-> IF b = "pre21" THEN 0 ELSE IF b = "v21" THEN 400 ELSE 415,
            isNone |-> TRUE, isDict |-> FALSE]
      ELSE IF rq.data = "malformed"
        THEN [raises |-> 400, isNone |-> FALSE, isDict |-> FALSE]
        ELSE [raises |-> 0, isNone |-> FALSE, isDict |-> rq.data = "object"]

\* dict.get(key, default)
DictGet(d, key, default) == IF key \in DOMAIN d THEN d[key] ELSE default

\* session_client.session_path(PROJECT_ID, session_id)
SessionPath(project, session) ==
    <<"projects", project, "agent", "sessions", session>>

\* response.query_result.fulfillment_text or "Sorry, I didn't understand."
BotResponse(fulfillment_text) ==
    IF fulfillment_text = "" THEN "Sorry, I didn't understand." ELSE fulfillment_text

\* Variant: the two texts stored under each other's attribute.
ItemSwapped(id, um, br, ts) ==
    [id |-> id, user_message |-> br, bot_response |-> um, timestamp |-> ts]

\* The Item save_conversation writes.
Item(id, um, br, ts) ==
    [id |-> id, user_message |-> um, bot_response |-> br, timestamp |-> ts]

\* table.put_item(Item=item) when the service accepts it: an item with the
\* same key replaces the stored one, a new key adds an item.
PutItem(tbl, item) ==
    IF \E i \in 1..Len(tbl) : tbl[i].id = item.id
      THEN [i \in 1..Len(tbl) |-> IF tbl[i].id = item.id THEN item ELSE tbl[i]]
      ELSE Append(tbl, item)

\* Variant: save_conversation without its try/except.
SaveConversationPropagates(putOk) == ~putOk

\* save_conversation: does the exception of a failed put_item leave it?
SaveConversationRaises(putOk) == FALSE

\* Variant: get_stats without its try/except.
GetStatsPropagates(scanOk, count) ==
    [raised |-> ~scanOk,
     value  |-> [total_queries |-> IF scanOk THEN count ELSE 0]]

\* get_stats: [raised, value]
GetStats(scanOk, count) ==
    [raised |-> FALSE,
     value  |-> [total_queries |-> IF scanOk THEN count ELSE 0]]

\* stats: jsonify(get_stats()) inside try, 500 in the except
StatsResponse(gs) ==
    IF gs.raised THEN Jsonify([total_queries |-> 0], 500)
                 ELSE Jsonify(gs.value, 200)

\* Variant: the except branch answering under the key of the other handlers.
ChatFailureLeaks == Jsonify([error |-> "Sorry, something went wrong."], 500)

\* chat, the except branch: what any exception caught in the handler becomes
ChatFailure == Jsonify([response |-> "Sorry, something went wrong."], 500)

\* chat, lines 76-85: from entry up to the detect_intent call.
\*   [done |-> the handler has returned, response |-> what it returned]
ChatEntry(b, rq) ==
    LET j == GetJson(b, rq) IN
    IF j.raises # 0
      THEN [done |-> TRUE, response |-> HttpExceptionPage(j.raises)]
    ELSE IF ~rq.is_json
      THEN [done |-> TRUE,
            response |-> Jsonify([response |-> "Invalid request format"], 400)]
    ELSE IF ~j.isDict
      THEN [done |-> TRUE,
            response |-> ChatFailure]
    ELSE IF DictGet(rq.json, "message", "") = ""
      THEN [done |-> TRUE,
            response |-> Jsonify([response |-> "Please provide a message"], 400)]
    ELSE [done |-> FALSE, response |-> NoResponse]

\* Variant: a failed detect_intent is attempted again.
AfterDetectIntentRetries(nluOk) == IF nluOk THEN "put" ELSE "nlu"

\* Variant: the exception of detect_intent is swallowed and chat goes on.
AfterDetectIntentIgnoresFailure(nluOk) == "put"

\* chat, lines 89-96: where the handler goes once detect_intent has returned
\* (nluOk) or raised (~nluOk).
AfterDetectIntent(nluOk) == IF nluOk THEN "put" ELSE "done"

----------------------------------------------------------------------------
(* State *)

VARIABLES
    build,         \* the Werkzeug line of this deployment
    pc,            \* per request: "idle", "nlu", "put", "scan", "done"
    request,       \* per request: what the client sent
    user_message,  \* per request: chat's local user_message
    session_id,    \* per request: chat's local session_id
    bot_response,  \* per request: chat's local bot_response
    response,      \* per request: the HTTP response returned
    nluCalls,      \* per request: the detect_intent calls made, with outcome
    putCalls,      \* per request: the put_item calls made, with outcome
    scanCalls,     \* per request: the scan calls made, with outcome
    table,         \* the items of the DynamoDB table, in order of creation
    uuids,         \* number of uuid4() identifiers drawn so far
    clock          \* datetime.now()

vars == <<build, pc, request, user_message, session_id, bot_response, response,
          nluCalls, putCalls, scanCalls, table, uuids, clock>>

Init ==
    /\ build \in Builds
    /\ pc = [r \in Reqs |-> "idle"]
    /\ request = [r \in Reqs |-> NoRequest]
    /\ user_message = [r \in Reqs |-> ""]
    /\ session_id = [r \in Reqs |-> ""]
    /\ bot_response = [r \in Reqs |-> ""]
    /\ response = [r \in Reqs |-> NoResponse]
    /\ nluCalls = [r \in Reqs |-> <<>>]
    /\ putCalls = [r \in Reqs |-> <<>>]
    /\ scanCalls = [r \in Reqs |-> <<>>]
    /\ table = <<>>
    /\ uuids = 0
    /\ clock = 0

\* The handler of request r returns resp.
Return(r, resp) ==
    /\ pc' = [pc EXCEPT ![r] = "done"]
    /\ response' = [response EXCEPT ![r] = resp]

----------------------------------------------------------------------------
(* Handlers *)

\* GET /: index()
Index(r, templateOk) ==
    /\ pc[r] = "idle"
    /\ request' = [request EXCEPT ![r] = PlainRequest("index")]
    /\ Return(r, IF templateOk THEN IndexPage
                 ELSE Jsonify([error |-> "Template not found"], 404))
    /\ UNCHANGED <<clock, build, user_message, session_id, bot_response,
                   nluCalls, putCalls, scanCalls, table, uuids>>

\* Unmatched route: page_not_found()
PageNotFound(r) ==
    /\ pc[r] = "idle"
    /\ request' = [request EXCEPT ![r] = PlainRequest("unmatched")]
    /\ Return(r, Jsonify([error |-> "Page not found. Check the URL and try again."], 404))
    /\ UNCHANGED <<clock, build, user_message, session_id, bot_response,
                   nluCalls, putCalls, scanCalls, table, uuids>>

\* POST /chat: chat() from entry to the detect_intent call, or to its return
\* when the request is rejected first.
ChatBegin(r, rq) ==
    /\ pc[r] = "idle"
    /\ request' = [request EXCEPT ![r] = rq]
    /\ UNCHANGED clock
    /\ LET e == ChatEntry(build, rq) IN
       IF e.done
         THEN /\ Return(r, e.response)
              /\ UNCHANGED <<user_message, session_id, uuids>>
         ELSE /\ pc' = [pc EXCEPT ![r] = "nlu"]
              /\ user_message' = [user_message EXCEPT ![r] = rq.json["message"]]
              \* the default of .get() is evaluated whether or not it is used
              /\ uuids' = uuids + 1
              /\ session_id' = [session_id EXCEPT
                                  ![r] = DictGet(rq.json, "session_id", Uuid4(uuids + 1))]
              /\ UNCHANGED response
    /\ UNCHANGED <<build, bot_response, nluCalls, putCalls, scanCalls, table>>

\* session_client.detect_intent(...) returns (nluOk, with fulfillment text ft)
\* or raises; chat() goes on to the put_item call or to the except branch.
DetectIntent(r, nluOk, ft) ==
    /\ pc[r] = "nlu"
    /\ nluCalls' = [nluCalls EXCEPT ![r] =
          Append(@, [session |-> SessionPath(PROJECT_ID, session_id[r]),
                     text |-> user_message[r], language_code |-> "en",
                     ok |-> nluOk, fulfillment_text |-> IF nluOk THEN ft ELSE ""])]
    /\ UNCHANGED clock
    /\ LET next == AfterDetectIntent(nluOk) IN
       IF next = "done"
         THEN /\ Return(r, ChatFailure)
              /\ UNCHANGED bot_response
         ELSE /\ pc' = [pc EXCEPT ![r] = next]
              /\ bot_response' = [bot_response EXCEPT
                    ![r] = IF nluOk THEN BotResponse(ft) ELSE @]
              /\ UNCHANGED response
    /\ UNCHANGED <<build, request, user_message, session_id,
                   putCalls, scanCalls, table, uuids>>

\* save_conversation(user_message, bot_response): table.put_item succeeds
\* (putOk) or raises; chat() then returns.
SaveConversation(r, putOk) ==
    /\ pc[r] = "put"
    /\ LET item == Item(Uuid4(uuids + 1), user_message[r], bot_response[r], clock) IN
       /\ uuids' = uuids + 1
       /\ putCalls' = [putCalls EXCEPT ![r] = Append(@, [item |-> item, ok |-> putOk])]
       /\ table' = IF putOk THEN PutItem(table, item) ELSE table
    /\ clock' = clock + 1
    /\ Return(r, IF SaveConversationRaises(putOk)
                   THEN ChatFailure
                   ELSE Jsonify([response |-> bot_response[r],
                                 session_id |-> session_id[r]], 200))
    /\ UNCHANGED <<build, request, user_message, session_id, bot_response,
                   nluCalls, scanCalls>>

\* GET /stats: stats() up to the scan call of get_stats()
StatsBegin(r) ==
    /\ pc[r] = "idle"
    /\ request' = [request EXCEPT ![r] = PlainRequest("stats")]
    /\ pc' = [pc EXCEPT ![r] = "scan"]
    /\ UNCHANGED <<clock, build, user_message, session_id, bot_response, response,
                   nluCalls, putCalls, scanCalls, table, uuids>>

\* table.scan(Select='COUNT') returns (scanOk) or raises; get_stats() and
\* stats() return.
Scan(r, scanOk) ==
    /\ pc[r] = "scan"
    /\ scanCalls' = [scanCalls EXCEPT ![r] =
          Append(@, [ok |-> scanOk, count |-> Len(table)])]
    /\ Return(r, StatsResponse(GetStats(scanOk, Len(table))))
    /\ UNCHANGED <<clock, build, request, user_message, session_id, bot_response,
                   nluCalls, putCalls, table, uuids>>

Next ==
    \/ \E r \in Reqs, t \in BOOLEAN : Index(r, t)
    \/ \E r \in Reqs : PageNotFound(r)
    \/ \E r \in Reqs, rq \in ChatRequests : ChatBegin(r, rq)
    \/ \E r \in Reqs, ok \in BOOLEAN, ft \in FulfillmentTexts : DetectIntent(r, ok, ft)
    \/ \E r \in Reqs, ok \in BOOLEAN : SaveConversation(r, ok)
    \/ \E r \in Reqs : StatsBegin(r)
    \/ \E r \in Reqs, ok \in BOOLEAN : Scan(r, ok)

Spec == Init /\ [][Next]_vars

----------------------------------------------------------------------------
(* Vocabulary of the properties *)

Done(r) == pc[r] = "done"

IsChat(r) == request[r].route = "chat"

IsStats(r) == request[r].route = "stats"

\* The body of request r reached the handler as JSON (request.json has a value).
HasJsonBody(r) ==
    IsChat(r) /\ request[r].is_json /\ request[r].data \in {"array", "object"}

\* The message field of the JSON body is absent or empty.
MessageMissing(r) ==
    HasJsonBody(r) /\ DictGet(request[r].json, "message", "") = ""

\* The JSON body carries a non-empty message.
MessageGiven(r) ==
    HasJsonBody(r) /\ DictGet(request[r].json, "message", "") # ""

SessionGiven(r) == "session_id" \in DOMAIN request[r].json

NluSucceeded(r) == Len(nluCalls[r]) > 0 /\ nluCalls[r][1].ok

NluFailed(r) == Len(nluCalls[r]) > 0 /\ ~nluCalls[r][1].ok

\* The reply of the NLU client: the fulfillment text, or the default when the
\* service sent none.
NluReply(r) == BotResponse(nluCalls[r][1].fulfillment_text)

FailureKeys == {"response", "error", "total_queries"}

----------------------------------------------------------------------------
(* Properties *)

\* C1: POST /chat with a body that is not valid JSON is answered with 400 and
\* {"response": "Invalid request format"}, with no NLU call and no storage
\* write.  Stated as claimed; the code violates it.
C1_InvalidJsonRejected ==
    \A r \in Reqs :
        Done(r) /\ IsChat(r) /\ request[r].data = "malformed" =>
            /\ response[r] = Jsonify([response |-> "Invalid request format"], 400)
            /\ nluCalls[r] = <<>>
            /\ putCalls[r] = <<>>

\* C2 as claimed: GET /stats answers 500 {"total_queries": 0} when the count
\* query fails, and 200 {"total_queries": n} when it succeeds with n.
C2_StatsFailureIs500 ==
    \A r \in Reqs :
        Done(r) /\ IsStats(r) =>
            IF scanCalls[r][1].ok
              THEN response[r] = Jsonify([total_queries |-> scanCalls[r][1].count], 200)
              ELSE response[r] = Jsonify([total_queries |-> 0], 500)

\* C2 as amended: GET /stats answers 200 {"total_queries": 0} when the count
\* query fails, and 200 {"total_queries": n} when it succeeds with n.
C2_StatsFailureIs200 ==
    \A r \in Reqs :
        Done(r) /\ IsStats(r) =>
            /\ Len(scanCalls[r]) = 1
            /\ IF scanCalls[r][1].ok
                 THEN response[r] = Jsonify([total_queries |-> scanCalls[r][1].count], 200)
                 ELSE response[r] = Jsonify([total_queries |-> 0], 200)

\* A /stats request whose count query failed while the table held a record.
C2_Witness ==
    \E r \in Reqs :
        /\ Done(r) /\ IsStats(r)
        /\ ~scanCalls[r][1].ok
        /\ scanCalls[r][1].count > 0

\* C3: every failure response, on every endpoint and under every outcome of
\* the collaborators, is a JSON object with a response, error or
\* total_queries key.  Stated as claimed; the code violates it.
C3_FailuresAreJson ==
    \A r \in Reqs :
        Done(r) /\ response[r].status >= 400 =>
            /\ response[r].mimetype = "application/json"
            /\ DOMAIN response[r].body \cap FailureKeys # {}

\* C4: a /chat request with non-empty message m and supplied session s whose
\* NLU call succeeds with reply r made that one call with session s and text
\* m, is answered 200 {"response": r, "session_id": s}, and attempted exactly
\* one storage write, carrying m and r.
C4_ChatSuccess ==
    \A r \in Reqs :
        Done(r) /\ MessageGiven(r) /\ SessionGiven(r) /\ NluSucceeded(r) =>
            LET m == request[r].json["message"]
                s == request[r].json["session_id"]
            IN  /\ Len(nluCalls[r]) = 1
                /\ nluCalls[r][1].session = SessionPath(PROJECT_ID, s)
                /\ nluCalls[r][1].text = m
                /\ response[r] = Jsonify([response |-> NluReply(r), session_id |-> s], 200)
                /\ Len(putCalls[r]) = 1
                /\ putCalls[r][1].item.user_message = m
                /\ putCalls[r][1].item.bot_response = NluReply(r)

\* A finished /chat request with message "hello", session "abc123" and the
\* NLU reply "Hi there!".
C4_Witness ==
    \E r \in Reqs :
        /\ Done(r) /\ MessageGiven(r) /\ SessionGiven(r) /\ NluSucceeded(r)
        /\ request[r].json["message"] = "hello"
        /\ request[r].json["session_id"] = "abc123"
        /\ nluCalls[r][1].fulfillment_text = "Hi there!"

\* Two finished /chat requests with the same body and the same successful NLU
\* reply, the storage write of the first succeeded and of the second failed.
StorageOutcomeDiffers(r1, r2) ==
    /\ Done(r1) /\ Done(r2)
    /\ MessageGiven(r1) /\ MessageGiven(r2)
    /\ request[r1] = request[r2]
    /\ NluSucceeded(r1) /\ NluSucceeded(r2)
    /\ nluCalls[r1][1].fulfillment_text = nluCalls[r2][1].fulfillment_text
    /\ Len(putCalls[r1]) = 1 /\ Len(putCalls[r2]) = 1
    /\ putCalls[r1][1].ok /\ ~putCalls[r2][1].ok

\* C5: a storage write failure is invisible to the caller of /chat: same
\* request, same NLU reply, then status 200 and the same body whether the
\* write succeeded or failed (the session_id the server generated for a
\* request that supplied none is that request's own).
C5_StorageFailureInvisible ==
    \A r1, r2 \in Reqs :
        StorageOutcomeDiffers(r1, r2) =>
            /\ response[r1].status = 200
            /\ response[r2].status = 200
            /\ response[r1].mimetype = response[r2].mimetype
            /\ DOMAIN response[r1].body = DOMAIN response[r2].body
            /\ response[r1].body.response = response[r2].body.response
            /\ SessionGiven(r1) => response[r1] = response[r2]

C5_Witness ==
    \E r1, r2 \in Reqs : StorageOutcomeDiffers(r1, r2) /\ SessionGiven(r1)

\* C6: a valid JSON body whose message is absent or empty is answered with
\* 400 {"response": "Please provide a message"}, whatever the session_id.
\* Stated as claimed; the code violates it.
C6_MissingMessageIs400 ==
    \A r \in Reqs :
        Done(r) /\ MessageMissing(r) =>
            response[r] = Jsonify([response |-> "Please provide a message"], 400)

\* C7: a /chat request with a non-empty message is answered with 200 or 500
\* and a body with the key response; with session_id too when 200; and with
\* 500 {"response": "Sorry, something went wrong."} when the NLU call failed.
C7_ChatStatus ==
    \A r \in Reqs :
        Done(r) /\ MessageGiven(r) =>
            /\ response[r].status \in {200, 500}
            /\ response[r].mimetype = "application/json"
            /\ "response" \in DOMAIN response[r].body
            /\ response[r].status = 200 => "session_id" \in DOMAIN response[r].body
            /\ NluFailed(r) =>
                 response[r] = Jsonify([response |-> "Sorry, something went wrong."], 500)

\* A /chat request answered 500 after its NLU call failed, and one answered 200.
C7_Witness ==
    /\ \E r \in Reqs : Done(r) /\ MessageGiven(r) /\ NluFailed(r)
    /\ \E r \in Reqs : Done(r) /\ MessageGiven(r) /\ response[r].status = 200

\* C8: no retries: a request calls the NLU service at most once and the
\* storage service at most once (put_item for /chat, scan for /stats).
C8_NoRetries ==
    \A r \in Reqs :
        /\ Len(nluCalls[r]) <= 1
        /\ Len(putCalls[r]) + Len(scanCalls[r]) <= 1

\* A finished request whose NLU call failed and one whose storage call failed.
C8_Witness ==
    /\ \E r \in Reqs : Done(r) /\ NluFailed(r)
    /\ \E r \in Reqs :
         /\ Done(r)
         /\ \/ Len(putCalls[r]) = 1 /\ ~putCalls[r][1].ok
            \/ Len(scanCalls[r]) = 1 /\ ~scanCalls[r][1].ok

SuccessfulWrites ==
    {r \in Reqs : Len(putCalls[r]) > 0 /\ putCalls[r][Len(putCalls[r])].ok}

\* No stored record is changed or removed by a step.
AppendOnly ==
    /\ Len(table') >= Len(table)
    /\ SubSeq(table', 1, Len(table)) = table

\* A count query that succeeds in this step answers the number of records
\* the table holds in this step.
CountIsLive ==
    \A r \in Reqs :
        pc[r] = "scan" /\ pc'[r] = "done" /\ scanCalls'[r][1].ok =>
            response'[r] = Jsonify([total_queries |-> Len(table)], 200)

\* C9: under any interleaving of /chat and /stats requests the stored records
\* are append-only, there are as many as /chat requests whose storage write
\* succeeded, and a successful /stats count is the number of records present
\* when it is taken.
C9_AppendOnly ==
    /\ [](Len(table) = Cardinality(SuccessfulWrites))
    /\ [][AppendOnly /\ CountIsLive]_vars

\* Two records in the table; or one record and a /stats answer that counted it.
C9_Witness ==
    \/ Len(table) >= 2
    \/ /\ Len(table) >= 1
       /\ \E r \in Reqs :
            /\ Done(r) /\ IsStats(r) /\ scanCalls[r][1].ok
            /\ response[r].body.total_queries >= 1

\* A step that changes the table is a storage write of a request whose NLU
\* call succeeded.
WritesFollowNlu ==
    table' # table =>
        \E r \in Reqs :
            /\ Len(putCalls'[r]) = Len(putCalls[r]) + 1
            /\ NluSucceeded(r)

\* C10: the storage write of a /chat request comes only after its NLU call
\* succeeded: a request rejected with 400 or whose NLU call failed attempts no
\* write and leaves the records as they are, and one rejected with 400 makes
\* no NLU call either.
C10_WriteAfterNlu ==
    /\ [](\A r \in Reqs :
            /\ Len(putCalls[r]) > 0 => NluSucceeded(r)
            /\ Done(r) /\ IsChat(r) /\ response[r].status = 400 =>
                 nluCalls[r] = <<>> /\ putCalls[r] = <<>>
            /\ NluFailed(r) => putCalls[r] = <<>>)
    /\ [][WritesFollowNlu]_vars

\* A request rejected with 400 and a request whose NLU call failed, both
\* finished.
C10_Witness ==
    /\ \E r \in Reqs : Done(r) /\ IsChat(r) /\ response[r].status = 400
    /\ \E r \in Reqs : Done(r) /\ NluFailed(r)

====
